---- MODULE Spec2Model ----
(***************************************************************************)
(* A model of print_names_and_sources.py: the record iterator              *)
(* (_all_problems), the reporter (_print_names_and_sources) and the        *)
(* converter to the apps layout (_convert_to_apps_format with its helpers  *)
(* _aggregate_test_cases and _transpose_input_output).                     *)
(*                                                                         *)
(* Python lists are objects with identity: the decoded problem holds        *)
(* references into `heap`, so that an in-place extension of a list that is  *)
(* shared with the problem would be visible in what is written later.      *)
(***************************************************************************)
EXTENDS Integers, Sequences, FiniteSets, TLC

VARIABLES
    mode,          \* "report": _print_names_and_sources; "convert": _convert_to_apps_format
    profile,       \* which bounded set of records the containers hold ("light" | "rich")
    fileSizes,     \* fileSizes[k]: the number of records in the k-th filename of sys.argv[1:]
    pc,            \* the position of the run
    fileIdx,       \* index of `filename` in the loop of _all_problems
    recIdx,        \* number of records the current reader has yielded
    reader,        \* the container the local `reader` is bound to (0: unbound)
    readHandles,   \* the containers whose read handle is open
    yielded,       \* the records _all_problems has yielded, in order
    printed,       \* the lines print() wrote for names (reporter lines, progress lines)
    msg,           \* the ContestProblem message the generator yielded last
    pos,           \* <<file index, index in file>> of that message
    name,          \* the local `name` (line 90)
    problem,       \* the local `problem` after line 96: key -> value, lists by reference
    heap,          \* the list objects alive while a problem is converted
    training_set,  \* reference returned by _aggregate_test_cases
    test_set,      \* reference returned by _aggregate_test_cases
    input_outputs, \* the local `input_outputs` (line 99)
    transposeArg,  \* the list handed to _transpose_input_output, as it was at the call
    received,      \* the test-case fields of the problem as decoded at line 96
    mapIdx,        \* index into `mapping` of the loop at line 103
    written,       \* the files written for the current problem, in order
    diag,          \* the missing-attribute lines printed for the current problem
    writeHandles,  \* the output files whose handle is open
    error,         \* the exception that ended the run, if any
    fs             \* problem directory -> the records that wrote a file into it

iterVars == <<fileIdx, recIdx, reader, readHandles, yielded, msg, pos>>
probVars == <<name, problem, heap, training_set, test_set, input_outputs,
              transposeArg, received, mapIdx, written, diag>>
vars == <<mode, profile, fileSizes, pc, iterVars, printed, probVars,
          writeHandles, error, fs>>

(***************************************************************************)
(* Bounds of the model.                                                    *)
(***************************************************************************)
MaxFiles == 2
MaxRecords == 2
MaxReportRecords == 4
MaxTests == 3

Names == {"A", "B"}
Sources == {0, 2}
Descriptions == {"", "desc"}
SolutionLists == {<<>>, <<"s">>}
Tests ==
    { [input |-> "a", output |-> "c"], [input |-> "b", output |-> "d"],
      [input |-> "", output |-> "c"], [input |-> "a", output |-> ""],
      [input |-> "", output |-> ""] }
LightLists == {<<>>, <<[input |-> "a", output |-> "c"]>>}

SeqsOfLen(n) == [1..n -> Tests]

\* Records of a batch: every combination of present and absent attributes.
LightRecords ==
    [name : Names, source : Sources, description : Descriptions,
     solutions : SolutionLists, public_tests : LightLists,
     private_tests : LightLists, generated_tests : LightLists]

\* Records of a single-record run: up to MaxTests test cases of any content,
\* split in every way over the three test-case fields.
Splits ==
    {s \in (0..MaxTests) \X (0..MaxTests) \X (0..MaxTests) :
        s[1] + s[2] + s[3] <= MaxTests}

RichRecords ==
    UNION { { [name |-> "A", source |-> 2, description |-> "desc",
               solutions |-> <<"s">>, public_tests |-> p,
               private_tests |-> r, generated_tests |-> g] :
              p \in SeqsOfLen(s[1]), g \in SeqsOfLen(s[2]), r \in SeqsOfLen(s[3]) } :
            s \in Splits }

\* Records of a reporter run: the reporter reads the name and the source only.
NameRecords ==
    { [name |-> n, source |-> s, description |-> "", solutions |-> <<>>,
       public_tests |-> <<>>, private_tests |-> <<>>, generated_tests |-> <<>>] :
      n \in Names, s \in Sources }

Records(pr) ==
    CASE pr = "light" -> LightRecords
      [] pr = "rich" -> RichRecords
      [] pr = "names" -> NameRecords

RECURSIVE Sum(_)
Sum(s) == IF s = <<>> THEN 0 ELSE Head(s) + Sum(Tail(s))

Layouts ==
    {s \in UNION {[1..n -> 0..MaxRecords] : n \in 0..MaxFiles} : Sum(s) <= MaxRecords}

ReportLayouts ==
    {s \in UNION {[1..n -> 0..MaxReportRecords] : n \in 0..MaxFiles} :
        Sum(s) <= MaxReportRecords}

NoError == [type |-> "", key |-> ""]
NoMsg ==
    [name |-> "", source |-> 0, description |-> "", solutions |-> <<>>,
     public_tests |-> <<>>, private_tests |-> <<>>, generated_tests |-> <<>>]
NoPos == <<0, 0>>

(***************************************************************************)
(* contest_problem_pb2.ContestProblem.Source.Name                          *)
(***************************************************************************)
SourceName(n) ==
    CASE n = 0 -> "UNKNOWN_SOURCE"
      [] n = 1 -> "CODECHEF"
      [] n = 2 -> "CODEFORCES"

(***************************************************************************)
(* The line the reporter prints: print(label, name) joins with one space.  *)
(***************************************************************************)
ReportLine(m) == SourceName(m.source) \o " " \o m.name

(***************************************************************************)
(* _all_problems: the generator, one container after the other.            *)
(***************************************************************************)
NumFiles == Len(fileSizes)

\* RecordReader(io.FileIO(filename)): the right-hand side of line 36. The
\* reader of the previous file is still bound to `reader`, and open.
OpenContainer ==
    /\ pc = "files"
    /\ fileIdx < NumFiles
    /\ fileIdx' = fileIdx + 1
    /\ readHandles' = readHandles \cup {fileIdx + 1}
    /\ pc' = "bind"
    /\ UNCHANGED <<mode, profile, fileSizes, recIdx, reader, yielded, msg, pos,
                   printed, probVars, writeHandles, error, fs>>

\* The assignment of line 36: `reader` is rebound, the previous reader loses
\* its last reference and is finalized, which closes its container.
BindReader ==
    /\ pc = "bind"
    /\ reader' = fileIdx
    /\ readHandles' = {fileIdx}
    /\ recIdx' = 0
    /\ pc' = "read"
    /\ UNCHANGED <<mode, profile, fileSizes, fileIdx, yielded, msg, pos,
                   printed, probVars, writeHandles, error, fs>>

\* Line 37: whether reader.read_messages has another record, after i of n.
HasNextDropsLast(i, n) == i + 1 < n

HasNext(i, n) == i < n

\* Lines 37-38: the reader produces its next record, which is yielded to the
\* consumer. The locals of the consumer's loop body are rebound before they
\* are read again; they are reset here.
ReadMessage ==
    /\ pc = "read"
    /\ HasNext(recIdx, fileSizes[fileIdx])
    /\ \E m \in Records(profile) :
          /\ msg' = m
          /\ yielded' = Append(yielded, [pos |-> <<fileIdx, recIdx + 1>>,
                                         source |-> m.source, name |-> m.name])
    /\ pos' = <<fileIdx, recIdx + 1>>
    /\ recIdx' = recIdx + 1
    /\ pc' = "body"
    /\ name' = ""
    /\ problem' = <<>>
    /\ heap' = <<>>
    /\ training_set' = 0
    /\ test_set' = 0
    /\ input_outputs' = <<>>
    /\ transposeArg' = <<>>
    /\ received' = <<>>
    /\ mapIdx' = 0
    /\ written' = <<>>
    /\ diag' = <<>>
    /\ UNCHANGED <<mode, profile, fileSizes, fileIdx, reader, readHandles,
                   printed, writeHandles, error, fs>>

\* The reader is exhausted: the inner loop ends, the outer loop goes on.
EndOfFile ==
    /\ pc = "read"
    /\ ~HasNext(recIdx, fileSizes[fileIdx])
    /\ pc' = "files"
    /\ UNCHANGED <<mode, profile, fileSizes, iterVars, printed, probVars,
                   writeHandles, error, fs>>

\* No filename is left: the generator returns, the consumer's loop ends and
\* the function returns; the last reader is finalized with the frame.
Finish ==
    /\ pc = "files"
    /\ fileIdx = NumFiles
    /\ reader' = 0
    /\ readHandles' = {}
    /\ pc' = "done"
    /\ UNCHANGED <<mode, profile, fileSizes, fileIdx, recIdx, yielded, msg, pos,
                   printed, probVars, writeHandles, error, fs>>

(***************************************************************************)
(* _print_names_and_sources: the body of its loop.                         *)
(***************************************************************************)
PrintNameAndSource ==
    /\ mode = "report"
    /\ pc = "body"
    /\ printed' = Append(printed, ReportLine(msg))
    /\ pc' = "read"
    /\ UNCHANGED <<mode, profile, fileSizes, iterVars, probVars, writeHandles,
                   error, fs>>

(***************************************************************************)
(* json.loads(MessageToJson(problem)), line 96. MessageToJson prints the   *)
(* fields of a message that are set: a string field that is empty, an enum *)
(* field at its zero value and a repeated field without elements are left  *)
(* out, in the message and in its nested Test messages alike. Names are    *)
(* printed in lowerCamelCase and an enum as the name of its value.         *)
(***************************************************************************)
JsonFields ==
    {"name", "source", "description", "solutions",
     "publicTests", "privateTests", "generatedTests"}
TestFields == <<"publicTests", "privateTests", "generatedTests">>
TestFieldSet == {"publicTests", "privateTests", "generatedTests"}

DecodeTest(t) == [k \in {k \in {"input", "output"} : t[k] # ""} |-> t[k]]

DecodeTests(s) == [i \in 1..Len(s) |-> DecodeTest(s[i])]

IsDefault(m, k) ==
    CASE k = "name" -> m.name = ""
      [] k = "source" -> m.source = 0
      [] k = "description" -> m.description = ""
      [] k = "solutions" -> m.solutions = <<>>
      [] k = "publicTests" -> m.public_tests = <<>>
      [] k = "privateTests" -> m.private_tests = <<>>
      [] k = "generatedTests" -> m.generated_tests = <<>>

JsonValue(m, k) ==
    CASE k = "name" -> m.name
      [] k = "source" -> SourceName(m.source)
      [] k = "description" -> m.description
      [] k = "solutions" -> m.solutions
      [] k = "publicTests" -> DecodeTests(m.public_tests)
      [] k = "privateTests" -> DecodeTests(m.private_tests)
      [] k = "generatedTests" -> DecodeTests(m.generated_tests)

MessageToDict(m) == [k \in {k \in JsonFields : ~IsDefault(m, k)} |-> JsonValue(m, k)]

\* The object graph json.loads builds: each list of tests is an object of its
\* own, which the dict refers to.
PresentTestFields(d) == SelectSeq(TestFields, LAMBDA f : f \in DOMAIN d)

LoadedHeap(d) == [i \in 1..Len(PresentTestFields(d)) |-> d[PresentTestFields(d)[i]]]

LoadedProblem(d) ==
    [k \in DOMAIN d |->
        IF k \in TestFieldSet
        THEN CHOOSE i \in 1..Len(PresentTestFields(d)) : PresentTestFields(d)[i] = k
        ELSE d[k]]

\* The value a key of the problem stands for, references followed.
Deref(p, h, k) == IF k \in TestFieldSet THEN h[p[k]] ELSE p[k]

(***************************************************************************)
(* _aggregate_test_cases, lines 61-75. training_set is a fresh list that   *)
(* += extends in place; test_set is the problem's own privateTests list.   *)
(***************************************************************************)
_aggregate_test_cases_aliasing(p, h) ==
    LET h1 == IF "publicTests" \in DOMAIN p THEN h ELSE Append(h, <<>>)
        ts == IF "publicTests" \in DOMAIN p THEN p["publicTests"] ELSE Len(h1)
        h2 == IF "generatedTests" \in DOMAIN p
              THEN [h1 EXCEPT ![ts] = @ \o h1[p["generatedTests"]]]
              ELSE h1
        h3 == Append(h2, <<>>)
    IN  [training_set |-> ts,
         test_set |-> IF "privateTests" \in DOMAIN p THEN p["privateTests"] ELSE Len(h3),
         heap |-> h3]

_aggregate_test_cases(p, h) ==
    LET h0 == Append(h, <<>>)
        ts == Len(h0)
        h1 == IF "publicTests" \in DOMAIN p
              THEN [h0 EXCEPT ![ts] = @ \o h0[p["publicTests"]]]
              ELSE h0
        h2 == IF "generatedTests" \in DOMAIN p
              THEN [h1 EXCEPT ![ts] = @ \o h1[p["generatedTests"]]]
              ELSE h1
        h3 == Append(h2, <<>>)
    IN  [training_set |-> ts,
         test_set |-> IF "privateTests" \in DOMAIN p THEN p["privateTests"] ELSE Len(h3),
         heap |-> h3]

(***************************************************************************)
(* _transpose_input_output, lines 49-59. datum['input'] and                *)
(* datum['output'] raise KeyError on a datum without the key.              *)
(***************************************************************************)
KeyError(k) == [type |-> "KeyError", key |-> k]

RECURSIVE TransposeLoop(_, _, _, _)
TransposeLoop(tc, i, inputs, outputs) ==
    IF i > Len(tc)
    THEN [error |-> NoError, value |-> [inputs |-> inputs, outputs |-> outputs]]
    ELSE IF "input" \notin DOMAIN tc[i]
    THEN [error |-> KeyError("input"), value |-> <<>>]
    ELSE IF "output" \notin DOMAIN tc[i]
    THEN [error |-> KeyError("output"), value |-> <<>>]
    ELSE TransposeLoop(tc, i + 1, Append(inputs, tc[i]["input"]),
                       Append(outputs, tc[i]["output"]))

RECURSIVE TransposeLoopSameKey(_, _, _, _)
TransposeLoopSameKey(tc, i, inputs, outputs) ==
    IF i > Len(tc)
    THEN [error |-> NoError, value |-> [inputs |-> inputs, outputs |-> outputs]]
    ELSE IF "input" \notin DOMAIN tc[i]
    THEN [error |-> KeyError("input"), value |-> <<>>]
    ELSE IF "output" \notin DOMAIN tc[i]
    THEN [error |-> KeyError("output"), value |-> <<>>]
    ELSE TransposeLoopSameKey(tc, i + 1, Append(inputs, tc[i]["input"]),
                              Append(outputs, tc[i]["input"]))

_transpose_input_output_same_key(h, a) ==
    LET r == TransposeLoopSameKey(h[a], 1, <<>>, <<>>)
    IN  [heap |-> h, error |-> r.error, value |-> r.value]

_transpose_input_output(h, a) ==
    LET r == TransposeLoop(h[a], 1, <<>>, <<>>)
    IN  [heap |-> h, error |-> r.error, value |-> r.value]

(***************************************************************************)
(* _convert_to_apps_format.                                                *)
(***************************************************************************)
mapping ==
    << [filename |-> "solutions.json", attribute |-> "solutions"],
       [filename |-> "question.txt", attribute |-> "description"],
       [filename |-> "public_test_cases.json", attribute |-> "publicTests"],
       [filename |-> "private_test_cases.json", attribute |-> "privateTests"],
       [filename |-> "generated_test_cases.json", attribute |-> "generatedTests"],
       [filename |-> "input_output.json", attribute |-> "input_outputs"] >>

\* os.path.splitext(file_path)[1] of the filenames of the table.
Extension(filename) == IF filename = "question.txt" THEN ".txt" ELSE ".json"

\* Line 90: the name of the problem's directory under save_dir.
ProblemDirNameSourceOnly(m) == SourceName(m.source)

ProblemDirName(m) == SourceName(m.source) \o " " \o m.name

\* Line 118: the line printed for an attribute the problem does not have.
MissingLine(source, attribute) ==
    "problem " \o source \o " does not have attribute " \o attribute

\* What f.write (line 111) and json.dump (line 114) put into the file.
FileContent(ext, value) ==
    IF ext = ".txt" THEN [format |-> "text", value |-> value]
    ELSE [format |-> "json", value |-> value]

\* An exception nobody catches ends the process; its handles go with it.
Abort(e) ==
    /\ pc' = "aborted"
    /\ error' = e
    /\ reader' = 0
    /\ readHandles' = {}

\* Line 123 (or 122), and line 79: the root directory is made, then the loop
\* over the generator starts.
Begin ==
    /\ pc = "start"
    /\ pc' = "files"
    /\ UNCHANGED <<mode, profile, fileSizes, iterVars, printed, probVars,
                   writeHandles, error, fs>>

\* Lines 90-94: the name is printed and the problem's directory is made;
\* a directory that exists is kept (exist_ok=True).
MakeProblemDir ==
    /\ mode = "convert"
    /\ pc = "body"
    /\ name' = ProblemDirName(msg)
    /\ printed' = Append(printed, name')
    /\ fs' = IF name' \in DOMAIN fs THEN fs ELSE (name' :> {}) @@ fs
    /\ pc' = "decode"
    /\ UNCHANGED <<mode, profile, fileSizes, iterVars, problem, heap, training_set,
                   test_set, input_outputs, transposeArg, received, mapIdx,
                   written, diag, writeHandles, error>>

\* Line 96.
Decode ==
    /\ pc = "decode"
    /\ LET d == MessageToDict(msg) IN
          /\ problem' = LoadedProblem(d)
          /\ heap' = LoadedHeap(d)
          /\ received' = [k \in DOMAIN d \cap TestFieldSet |-> d[k]]
    /\ pc' = "aggregate"
    /\ UNCHANGED <<mode, profile, fileSizes, iterVars, printed, name, training_set,
                   test_set, input_outputs, transposeArg, mapIdx, written, diag,
                   writeHandles, error, fs>>

\* Line 98.
Aggregate ==
    /\ pc = "aggregate"
    /\ LET r == _aggregate_test_cases(problem, heap) IN
          /\ training_set' = r.training_set
          /\ test_set' = r.test_set
          /\ heap' = r.heap
    /\ pc' = "transpose"
    /\ UNCHANGED <<mode, profile, fileSizes, iterVars, printed, name, problem,
                   input_outputs, transposeArg, received, mapIdx, written, diag,
                   writeHandles, error, fs>>

\* Line 99: training_set + test_set is a new list, which is transposed.
Transpose ==
    /\ pc = "transpose"
    /\ LET h == Append(heap, heap[training_set] \o heap[test_set])
           r == _transpose_input_output(h, Len(h))
       IN  /\ transposeArg' = h[Len(h)]
           /\ heap' = r.heap
           /\ IF r.error = NoError
              THEN /\ input_outputs' = r.value
                   /\ pc' = "update"
                   /\ UNCHANGED <<error, reader, readHandles>>
              ELSE /\ Abort(r.error)
                   /\ UNCHANGED input_outputs
    /\ UNCHANGED <<mode, profile, fileSizes, fileIdx, recIdx, yielded, msg, pos,
                   printed, name, problem, training_set, test_set, received,
                   mapIdx, written, diag, writeHandles, fs>>

\* Lines 100-101.
Update ==
    /\ pc = "update"
    /\ LET io == ("train_set_size" :> Len(heap[training_set]))
                 @@ ("test_set_size " :> Len(heap[test_set]))
                 @@ input_outputs
       IN  /\ input_outputs' = io
           /\ problem' = ("input_outputs" :> io) @@ problem
    /\ mapIdx' = 1
    /\ pc' = "map"
    /\ UNCHANGED <<mode, profile, fileSizes, iterVars, printed, name, heap,
                   training_set, test_set, transposeArg, received, written, diag,
                   writeHandles, error, fs>>

\* Lines 117-118: the attribute is not a key of the problem. The line names
\* problem['source'], which raises KeyError when the problem has no source.
ReportMissing ==
    /\ pc = "map"
    /\ mapIdx <= Len(mapping)
    /\ mapping[mapIdx].attribute \notin DOMAIN problem
    /\ IF "source" \in DOMAIN problem
       THEN /\ diag' = Append(diag, MissingLine(problem["source"],
                                                mapping[mapIdx].attribute))
            /\ mapIdx' = mapIdx + 1
            /\ UNCHANGED <<pc, error, reader, readHandles>>
       ELSE /\ Abort(KeyError("source"))
            /\ UNCHANGED <<diag, mapIdx>>
    /\ UNCHANGED <<mode, profile, fileSizes, fileIdx, recIdx, yielded, msg, pos,
                   printed, name, problem, heap, training_set, test_set,
                   input_outputs, transposeArg, received, written, writeHandles, fs>>

\* Lines 104-110 and 112-113: the attribute is a key, and the file is opened.
\* (Every filename of the table ends in .txt or .json: line 116 is not reached.)
OpenOutput ==
    /\ pc = "map"
    /\ mapIdx <= Len(mapping)
    /\ mapping[mapIdx].attribute \in DOMAIN problem
    /\ Extension(mapping[mapIdx].filename) \in {".txt", ".json"}
    /\ writeHandles' = writeHandles \cup {<<name, mapping[mapIdx].filename>>}
    /\ pc' = "write"
    /\ UNCHANGED <<mode, profile, fileSizes, iterVars, printed, probVars, error, fs>>

\* Lines 111 and 114, and the end of the with block, which closes the file.
WriteOutput ==
    /\ pc = "write"
    /\ LET e == mapping[mapIdx] IN
          /\ written' = Append(written,
                 [filename |-> e.filename,
                  content |-> FileContent(Extension(e.filename),
                                          Deref(problem, heap, e.attribute))])
          /\ fs' = [fs EXCEPT ![name] = @ \cup {pos}]
          /\ writeHandles' = writeHandles \ {<<name, e.filename>>}
    /\ mapIdx' = mapIdx + 1
    /\ pc' = "map"
    /\ UNCHANGED <<mode, profile, fileSizes, iterVars, printed, name, problem, heap,
                   training_set, test_set, input_outputs, transposeArg, received,
                   diag, error>>

\* The write raises OSError: the with block closes the file on the way out,
\* and nobody catches the exception.
WriteFails ==
    /\ pc = "write"
    /\ writeHandles' = writeHandles \ {<<name, mapping[mapIdx].filename>>}
    /\ Abort([type |-> "OSError", key |-> ""])
    /\ UNCHANGED <<mode, profile, fileSizes, fileIdx, recIdx, yielded, msg, pos,
                   printed, probVars, fs>>

\* The loop over the table ends: the consumer asks the generator for more.
NextProblem ==
    /\ pc = "map"
    /\ mapIdx > Len(mapping)
    /\ pc' = "read"
    /\ UNCHANGED <<mode, profile, fileSizes, iterVars, printed, probVars,
                   writeHandles, error, fs>>

(***************************************************************************)
(* The specification.                                                      *)
(***************************************************************************)
Init ==
    /\ \/ /\ mode = "report"
          /\ profile = "names"
          /\ fileSizes \in ReportLayouts
       \/ /\ mode = "convert"
          /\ profile = "light"
          /\ fileSizes \in Layouts
       \/ /\ mode = "convert"
          /\ profile = "rich"
          /\ fileSizes = <<1>>
    /\ pc = "start"
    /\ fileIdx = 0
    /\ recIdx = 0
    /\ reader = 0
    /\ readHandles = {}
    /\ yielded = <<>>
    /\ printed = <<>>
    /\ msg = NoMsg
    /\ pos = NoPos
    /\ name = ""
    /\ problem = <<>>
    /\ heap = <<>>
    /\ training_set = 0
    /\ test_set = 0
    /\ input_outputs = <<>>
    /\ transposeArg = <<>>
    /\ received = <<>>
    /\ mapIdx = 0
    /\ written = <<>>
    /\ diag = <<>>
    /\ writeHandles = {}
    /\ error = NoError
    /\ fs = <<>>

Next ==
    \/ Begin
    \/ OpenContainer
    \/ BindReader
    \/ ReadMessage
    \/ EndOfFile
    \/ Finish
    \/ PrintNameAndSource
    \/ MakeProblemDir
    \/ Decode
    \/ Aggregate
    \/ Transpose
    \/ Update
    \/ ReportMissing
    \/ OpenOutput
    \/ WriteOutput
    \/ WriteFails
    \/ NextProblem

Spec == Init /\ [][Next]_vars

(***************************************************************************)
(* Notions the properties below share.                                     *)
(***************************************************************************)
\* The loop over the mapping table has ended for the current problem.
Converted == mode = "convert" /\ mapIdx > Len(mapping)

\* The run ended in a KeyError (and not in a failure of the file system).
AbortedByKeyError == pc = "aborted" /\ error.type = "KeyError"

\* The conversion of the current problem is over, without an I/O failure.
ProblemOver == Converted \/ AbortedByKeyError

\* The loop over the mapping table has dealt with entry i.
Visited(i) == mapIdx > 0 /\ (i < mapIdx \/ (i = mapIdx /\ AbortedByKeyError))

FilenamesOf(w) == [i \in 1..Len(w) |-> w[i].filename]

RECURSIVE PositionsFrom(_, _)
PositionsFrom(sizes, k) ==
    IF k > Len(sizes) THEN <<>>
    ELSE [i \in 1..sizes[k] |-> <<k, i>>] \o PositionsFrom(sizes, k + 1)

\* Every record of every file, in file order and then in-file order.
AllPositions == PositionsFrom(fileSizes, 1)

\* The tests of the current message in the order public, generated, private.
AllTests == msg.public_tests \o msg.generated_tests \o msg.private_tests

(***************************************************************************)
(* C1: the structure stored as input_outputs has the keys inputs, outputs, *)
(* train_set_size and test_set_size, and the two sizes sum to len(inputs). *)
(* The code stores the second size under 'test_set_size ' (line 100).      *)
(***************************************************************************)
C1_InputOutputsKeys ==
    "input_outputs" \in DOMAIN problem =>
        LET io == problem["input_outputs"] IN
            /\ {"inputs", "outputs", "train_set_size", "test_set_size"} \subseteq DOMAIN io
            /\ io["train_set_size"] + io["test_set_size"] = Len(io["inputs"])

(***************************************************************************)
(* C2: for every entry of the mapping table whose attribute is not a key   *)
(* of the problem, no file of that filename is written and exactly one     *)
(* line naming the attribute and the problem's source is printed.          *)
(***************************************************************************)
C2_AbsentFieldOneDiagnostic ==
    \A i \in 1..Len(mapping) :
        (Visited(i) /\ mapping[i].attribute \notin DOMAIN problem) =>
            /\ \A j \in 1..Len(written) : written[j].filename # mapping[i].filename
            /\ Cardinality({j \in 1..Len(diag) :
                    diag[j] = MissingLine(SourceName(msg.source), mapping[i].attribute)}) = 1

(***************************************************************************)
(* C3: an attribute of the record that is absent from the decoded          *)
(* structure never aborts the run.                                         *)
(***************************************************************************)
C3_AbsenceNeverAborts == pc = "aborted" => error.key \notin JsonFields

(***************************************************************************)
(* C4: for a problem that has every attribute of the mapping table, the    *)
(* six files of the table are written, in the order of the table, and no   *)
(* missing-attribute line is printed.                                      *)
(***************************************************************************)
C4_AllPresentSixFiles ==
    (/\ ProblemOver
     /\ \A i \in 1..Len(mapping) :
            mapping[i].attribute \in DOMAIN problem \cup {"input_outputs"}) =>
        /\ FilenamesOf(written) = FilenamesOf(mapping)
        /\ diag = <<>>

(***************************************************************************)
(* C5: _transpose_input_output keeps order and cardinality: for pairs that *)
(* all have an input and an output it returns {inputs, outputs} of the     *)
(* length of its argument with inputs[i], outputs[i] the i-th pair, the    *)
(* two empty lists for the empty sequence, and leaves its argument as it   *)
(* was; it fails only on a pair without one of the keys.                   *)
(***************************************************************************)
C5_TransposePreserves ==
    /\ pc = "update" =>
          /\ DOMAIN input_outputs = {"inputs", "outputs"}
          /\ Len(input_outputs["inputs"]) = Len(transposeArg)
          /\ Len(input_outputs["outputs"]) = Len(transposeArg)
          /\ \A i \in 1..Len(transposeArg) :
                /\ input_outputs["inputs"][i] = transposeArg[i]["input"]
                /\ input_outputs["outputs"][i] = transposeArg[i]["output"]
          /\ Len(transposeArg) = 0 =>
                input_outputs = [inputs |-> <<>>, outputs |-> <<>>]
          /\ heap[Len(heap)] = transposeArg
    /\ (AbortedByKeyError /\ error.key \in {"input", "output"}) =>
          \E i \in 1..Len(transposeArg) :
              DOMAIN transposeArg[i] # {"input", "output"}

C5_Witness ==
    /\ pc = "update"
    /\ Len(transposeArg) = 3
    /\ transposeArg[1] # transposeArg[2]
    /\ input_outputs["inputs"] = <<"a", "b", "a">>
    /\ input_outputs["outputs"] = <<"c", "d", "c">>

(***************************************************************************)
(* C6: _all_problems yields every record of every file once, in file order *)
(* and then in-file order; the reporter prints one line "<label> <name>"   *)
(* per yielded record in that order, k1 + ... + km lines in all.           *)
(***************************************************************************)
C6_ReporterOrder ==
    /\ Len(yielded) <= Len(AllPositions)
    /\ \A i \in 1..Len(yielded) : yielded[i].pos = AllPositions[i]
    /\ pc = "done" => Len(yielded) = Sum(fileSizes)
    /\ mode = "report" =>
          /\ Len(printed) = Len(yielded) - (IF pc = "body" THEN 1 ELSE 0)
          /\ \A i \in 1..Len(printed) :
                printed[i] = SourceName(yielded[i].source) \o " " \o yielded[i].name
          /\ pc = "done" => Len(printed) = Sum(fileSizes)

C6_Witness ==
    /\ mode = "report"
    /\ pc = "done"
    /\ fileSizes = <<1, 3>>
    /\ Len(printed) = 4
    /\ printed[1] = "CODEFORCES A"
    /\ printed[2] = "UNKNOWN_SOURCE B"

(***************************************************************************)
(* C7: building input_outputs leaves publicTests, privateTests and         *)
(* generatedTests as they were decoded, and what is written to the three   *)
(* test-case files is those sequences.                                     *)
(***************************************************************************)
AttributeOf(filename) ==
    (CHOOSE e \in {mapping[i] : i \in 1..Len(mapping)} : e.filename = filename).attribute

C7_TestFieldsPreserved ==
    /\ \A k \in DOMAIN received :
          k \in DOMAIN problem /\ Deref(problem, heap, k) = received[k]
    /\ \A i \in 1..Len(written) :
          AttributeOf(written[i].filename) \in TestFieldSet =>
              written[i].content =
                  [format |-> "json", value |-> received[AttributeOf(written[i].filename)]]

C7_Witness ==
    /\ DOMAIN received = TestFieldSet
    /\ Converted
    /\ Len(written) = 6
    /\ written[3].content.value # written[5].content.value
    /\ Len(problem["input_outputs"]["inputs"]) = 3

(***************************************************************************)
(* C8: input_outputs is the transposition of public then generated then    *)
(* private tests, every pair included, also a pair whose input or output   *)
(* is the empty text, with the training size len(public) + len(generated)  *)
(* and the test size len(private).                                         *)
(***************************************************************************)
C8_MergedTransposition ==
    ProblemOver =>
        /\ "input_outputs" \in DOMAIN problem
        /\ LET io == problem["input_outputs"] IN
              /\ io["inputs"] = [i \in 1..Len(AllTests) |-> AllTests[i].input]
              /\ io["outputs"] = [i \in 1..Len(AllTests) |-> AllTests[i].output]
              /\ io["train_set_size"] = Len(msg.public_tests) + Len(msg.generated_tests)
              /\ io["test_set_size "] = Len(msg.private_tests)

(***************************************************************************)
(* C9: at most one container handle and at most one output file handle is  *)
(* open; the handle of a file is released before that of the next file is  *)
(* acquired, and an output file is closed before the next mapping entry.   *)
(***************************************************************************)
C9_HandlesScoped ==
    /\ Cardinality(readHandles) <= 1
    /\ Cardinality(writeHandles) <= 1
    /\ pc = "bind" => readHandles = {fileIdx}
    /\ pc \in {"map", "aborted"} => writeHandles = {}

(***************************************************************************)
(* C10: after a successful conversion of n records there are n problem     *)
(* directories, each named "<label> <name>" after its record and holding   *)
(* files of that record alone.                                             *)
(***************************************************************************)
OneDirectoryPerRecord ==
    /\ Cardinality(DOMAIN fs) = Len(yielded)
    /\ \A i \in 1..Len(yielded) :
          LET d == SourceName(yielded[i].source) \o " " \o yielded[i].name IN
              d \in DOMAIN fs /\ fs[d] = {yielded[i].pos}

\* C10 as stated: any successful conversion leaves one directory per record.
C10_OneDirPerRecord == (mode = "convert" /\ pc = "done") => OneDirectoryPerRecord

\* C10 as amended: for records that differ pairwise in (source, name), the
\* run leaves one directory per record, holding files of that record alone.
DistinctNames ==
    \A i, j \in 1..Len(yielded) :
        i # j => <<yielded[i].source, yielded[i].name>> # <<yielded[j].source, yielded[j].name>>

C10_DistinctNamesOneDirEach ==
    (mode = "convert" /\ pc = "done" /\ DistinctNames) => OneDirectoryPerRecord

C10_Witness ==
    /\ mode = "convert"
    /\ pc = "done"
    /\ Len(yielded) = 2
    /\ yielded[1].source = yielded[2].source
    /\ yielded[1].name # yielded[2].name
    /\ Cardinality(DOMAIN fs) = 2

====
